---- MODULE Spec2Model ----
(***************************************************************************)
(* The intercepting proxy of humancto/mozzy (package proxy): the Server    *)
(* with its leaf-certificate cache, request id counter and capture log,    *)
(* all guarded by Server.mu; the plain-HTTP handler (handleRequest), the   *)
(* CONNECT handler (handleHTTPS) and the readers GetRequests / ExportHAR.  *)
(* Every handler is a goroutine; an action is one step of one goroutine.   *)
(* Four parts are also run on their own, on inputs of their own: the       *)
(* headers of the upstream request, the filters of the log, ExportHAR and  *)
(* GetCA on the files of the CA directory.                                 *)
(***************************************************************************)
EXTENDS Integers, Sequences, FiniteSets, TLC

VARIABLES
    srv,        \* "new" | "starting" | "listening" | "failed": where Start is
    https,      \* Server.HTTPS
    ca,         \* Server.CA: "nil" or "root"
    certCache,  \* Server.certCache: a function from the stored host keys to certificates
    requests,   \* Server.requests
    reqID,      \* Server.reqID
    mu,         \* Server.mu, write side: "unlocked" | "locked"
    hs,         \* the handler goroutines, one record each
    rd,         \* the reader goroutine (GetRequests / ExportHAR)
    mintCalls,  \* history: per host key, GenerateServerCert calls and those that returned a certificate
    serials,    \* history: certificates signed so far (stands for the random serial)
    started,    \* history: requests accepted so far
    hdr,        \* the headers of one request on their way to the upstream request
    flt,        \* one request under the configured filters
    har,        \* one run of ExportHAR over a given capture log
    disk,       \* the two CA files and the calls of GetCA on them
    rty         \* one call of httpclient.Do: its retry loop

vars == <<srv, https, ca, certCache, requests, reqID, mu, hs, rd, mintCalls, serials, started,
          hdr, flt, har, disk, rty>>

\* The server proper, and the units examined on their own.
server == <<srv, https, ca, certCache, requests, reqID, mu, hs, rd, mintCalls, serials, started>>
units == <<hdr, flt, har, disk, rty>>

(***************************************************************************)
(* Bounds of the model.                                                    *)
(***************************************************************************)
MaxStarted == 2

Handlers == {"h1", "h2"}

(***************************************************************************)
(* Authorities are strings, modelled as sequences of characters.           *)
(***************************************************************************)
NoHost == <<>>
HostBare == <<"a">>
Host443 == <<"a", ":", "4", "4", "3">>
Host8443 == <<"a", ":", "8", "4", "4", "3">>

ConnectHosts == {NoHost, HostBare, Host443, Host8443}
HostKeys == ConnectHosts \ {NoHost}
ForwardHosts == {HostBare}

MethodConnect == "CONNECT"
Methods == {MethodConnect, "GET"}

\* What an origin answers: a status and a body of some length.
Responses == {[status |-> 200, body |-> 5], [status |-> 500, body |-> 2]}

StatusBadRequest == 400
StatusInternalServerError == 500
StatusBadGateway == 502

Established == "HTTP/1.1 200 Connection Established\r\n\r\n"

(***************************************************************************)
(* net.SplitHostPort, as handleHTTPS uses it to find the certificate's     *)
(* name: the port starts after the last colon; an address without a colon, *)
(* or an unbracketed one with two colons, is an error.                     *)
(***************************************************************************)
IndexByte(s, c) ==
    IF \E i \in 1..Len(s) : s[i] = c
    THEN CHOOSE i \in 1..Len(s) : s[i] = c /\ \A j \in 1..(i-1) : s[j] # c
    ELSE 0

LastIndexByte(s, c) ==
    IF \E i \in 1..Len(s) : s[i] = c
    THEN CHOOSE i \in 1..Len(s) : s[i] = c /\ \A j \in (i+1)..Len(s) : s[j] # c
    ELSE 0

SplitHostPort(hostport) ==
    LET i == LastIndexByte(hostport, ":")
        bad == [host |-> <<>>, port |-> <<>>, err |-> TRUE]
    IN  IF i = 0 THEN bad
        ELSE IF hostport[1] = "["
        THEN LET end == IndexByte(hostport, "]")
             IN  IF end = 0 \/ end + 1 # i THEN bad
                 ELSE IF IndexByte(SubSeq(hostport, 2, Len(hostport)), "[") # 0 THEN bad
                 ELSE IF IndexByte(SubSeq(hostport, end + 1, Len(hostport)), "]") # 0 THEN bad
                 ELSE [host |-> SubSeq(hostport, 2, end - 1),
                       port |-> SubSeq(hostport, i + 1, Len(hostport)), err |-> FALSE]
        ELSE IF IndexByte(SubSeq(hostport, 1, i - 1), ":") # 0 THEN bad
        ELSE IF IndexByte(hostport, "[") # 0 \/ IndexByte(hostport, "]") # 0 THEN bad
        ELSE [host |-> SubSeq(hostport, 1, i - 1),
              port |-> SubSeq(hostport, i + 1, Len(hostport)), err |-> FALSE]

\* Mutant: the port is left on the certificate's name.
CertHostnameWithPort(host) == host

\* handleHTTPS: hostname := host; if SplitHostPort succeeds, hostname = h.
CertHostname(host) ==
    IF SplitHostPort(host).err THEN host ELSE SplitHostPort(host).host

(***************************************************************************)
(* CA.GenerateServerCert and the tls.Certificate handleHTTPS builds of it. *)
(***************************************************************************)
RootCert == [CommonName |-> "Mozzy Proxy CA", DNSNames |-> <<>>, Serial |-> 0]

\* The certificate a successful GenerateServerCert(hostname) returns.
ServerCert(hostname, serial) ==
    [CommonName |-> hostname, DNSNames |-> <<hostname>>, Serial |-> serial]

\* tls.Certificate{Certificate: [serverCert.Raw, CA.Cert.Raw], Leaf: serverCert}
TLSCert(serverCert) ==
    [Certificate |-> <<serverCert, RootCert>>, Leaf |-> serverCert]

NoCert == [Certificate |-> <<>>, Leaf |-> RootCert]

\* Mutant: the lookup never finds an entry.
CacheHasNever(cache, host) == FALSE

\* cert, ok := s.certCache[host]
CacheHas(cache, host) == host \in DOMAIN cache

\* Mutant: storing a leaf drops the other entries.
CacheStoreOnly(cache, host, cert) == [k \in {host} |-> cert]

\* s.certCache[host] = tlsCert
CacheStore(cache, host, cert) ==
    [k \in DOMAIN cache \cup {host} |-> IF k = host THEN cert ELSE cache[k]]

(***************************************************************************)
(* The capture log.                                                        *)
(***************************************************************************)
\* Mutant: the counter is read but not incremented.
NextIDSame(n) == n

\* s.reqID++
NextID(n) == n + 1

\* Mutant: the record is appended twice.
AppendRequestTwice(log, req) == Append(Append(log, req), req)

\* s.requests = append(s.requests, req)
AppendRequest(log, req) == Append(log, req)

\* time.Duration counts nanoseconds.
Millisecond == 1000000

\* time.Since(start) of a request that has been answered: in the server's run
\* one elapsed time stands for all (ExportHAR is examined on HarDurations).
Elapsed == {1500000}

\* URL.String() of the upstream request: the scheme, then the authority.
RequestURL(scheme, host) == <<scheme, ":", "/", "/">> \o host

\* The Request handleRequest and handleHTTPS log for a relayed response.
\* handleHTTPS sets no RespSize, so it keeps the zero value.
\* An http.Header with no field; the requests of the server model carry none.
NoHeaders == <<>>

RequestRecord(id, method, url, host, status, duration, reqSize, respSize) ==
    [ID |-> id, Method |-> method, URL |-> url, Host |-> host, StatusCode |-> status,
     Duration |-> duration, ReqSize |-> reqSize, RespSize |-> respSize, Error |-> "",
     Headers |-> NoHeaders]

\* Mutant: logError drops the error text.
ErrorRecordNoError(id, method, url, host, err) ==
    [ID |-> id, Method |-> method, URL |-> url, Host |-> host, StatusCode |-> 0,
     Duration |-> 0, ReqSize |-> 0, RespSize |-> 0, Error |-> "",
     Headers |-> NoHeaders]

\* The Request logError logs: StatusCode, Duration and the sizes keep their
\* zero values.
ErrorRecord(id, method, url, host, err) ==
    [ID |-> id, Method |-> method, URL |-> url, Host |-> host, StatusCode |-> 0,
     Duration |-> 0, ReqSize |-> 0, RespSize |-> 0, Error |-> err,
     Headers |-> NoHeaders]

\* reqs := make([]Request, len(s.requests)); copy(reqs, s.requests)
CopyRequests(log) == [i \in 1..Len(log) |-> log[i]]

(***************************************************************************)
(* Handler goroutines.                                                     *)
(***************************************************************************)
IdleHandler ==
    [pc |-> "idle", method |-> "", host |-> NoHost, cert |-> NoCert, id |-> 0,
     status |-> 0, body |-> 0, hijacked |-> FALSE, closed |-> FALSE,
     raw |-> <<>>, tls |-> <<>>, events |-> <<>>, sent |-> 0, resp |-> 0,
     respBody |-> 0, appended |-> 0, fail |-> "", origin |-> ""]

\* The reader goroutine makes one call: GetRequests or ExportHAR.
IdleReader == [pc |-> "idle", op |-> "", snap |-> <<>>, har |-> <<>>]

ReaderHolds == rd.pc \in {"rlocked", "copied", "exporting"}

\* Mutant: a writer does not wait for the readers.
CanLockIgnoringReaders == mu = "unlocked"

\* s.mu.Lock() returns only when no writer and no reader holds the mutex.
CanLock == mu = "unlocked" /\ ~ReaderHolds

\* s.mu.RLock() returns only when no writer holds the mutex.
CanRLock == mu = "unlocked"

\* The units at rest: the server's own run does not move them.
IdleHeaders == [stage |-> "idle"]
IdleFilter == [stage |-> "idle"]
IdleExport == [stage |-> "idle"]
IdleDisk == [stage |-> "idle"]
IdleRetry == [stage |-> "idle"]

\* NewServer
ServerInit ==
    /\ srv = "new"
    /\ https \in BOOLEAN
    /\ ca = "nil"
    /\ certCache = <<>>
    /\ requests = <<>>
    /\ reqID = 0
    /\ mu = "unlocked"
    /\ hs = [p \in Handlers |-> IdleHandler]
    /\ rd = IdleReader
    /\ mintCalls = [k \in HostKeys |-> [calls |-> 0, ok |-> 0]]
    /\ serials = 0
    /\ started = 0

Init ==
    /\ ServerInit
    /\ hdr = IdleHeaders
    /\ flt = IdleFilter
    /\ har = IdleExport
    /\ disk = IdleDisk
    /\ rty = IdleRetry

\* Mutant: Start goes on to listen without a CA.
StartWithoutCA ==
    /\ srv = "new"
    /\ srv' = "starting" /\ ca' = "nil"
    /\ UNCHANGED <<units, https, certCache, requests, reqID, mu, hs, rd, mintCalls, serials, started>>

\* Server.Start, up to the listener: with HTTPS set, GetCA runs first; its
\* error is returned at once, its CA is stored in s.CA.
Start ==
    /\ srv = "new"
    /\ \E loaded \in BOOLEAN :
         IF https
         THEN IF loaded THEN ca' = "root" /\ srv' = "starting"
                        ELSE ca' = "nil" /\ srv' = "failed"
         ELSE ca' = "nil" /\ srv' = "starting"
    /\ UNCHANGED <<units, https, certCache, requests, reqID, mu, hs, rd, mintCalls, serials, started>>

\* return server.ListenAndServe(): the listener is bound and accepts, or the
\* error of the bind is returned.
ListenAndServe ==
    /\ srv = "starting"
    /\ \E bound \in BOOLEAN : srv' = IF bound THEN "listening" ELSE "failed"
    /\ UNCHANGED <<units, https, ca, certCache, requests, reqID, mu, hs, rd, mintCalls, serials, started>>

NotHandlers == <<https, ca, certCache, requests, reqID, mu, rd, mintCalls, serials>>

Step(p, r) == hs' = [hs EXCEPT ![p] = r]

\* Mutant: no deferred Close runs.
ReturnLeavesOpen(h) == [h EXCEPT !.pc = "done"]

\* Every return after the hijack runs the deferred clientConn.Close().
Return(h) == [h EXCEPT !.pc = "done", !.closed = h.hijacked]

\* http.Error(w, msg, code) on the response writer, then return.
HTTPError(h, code, why) == Return([h EXCEPT !.status = code, !.fail = why])

ErrNewRequest == "net/http: invalid method"
ErrTransport == "dial tcp: lookup failed"
ErrCertificate == "x509: certificate signed by unknown authority"

\* The errors client.Do returns when the upstream leg fails.
TransportErrors == {ErrTransport, ErrCertificate}

\* TLSClientConfig of the tunnel's upstream client.
InsecureSkipVerify == FALSE

\* Mutant: the upstream client accepts any chain.
ChainAcceptedAlways(chainValid) == TRUE

\* The TLS client of the upstream leg goes on with an origin only when its
\* chain verifies against the trust roots, unless verification is skipped.
ChainAccepted(chainValid) == InsecureSkipVerify \/ chainValid

\* The request read inside the tunnel.
InnerRequest == [method |-> "GET", host |-> HostBare]

\* The server hands an accepted request to handleRequest in a goroutine.
Accept(p) ==
    /\ srv = "listening"
    /\ hs[p].pc \in {"idle", "done", "panicked"}
    /\ started < MaxStarted
    /\ \E m \in Methods, h \in ConnectHosts :
         /\ m # MethodConnect => h \in ForwardHosts
         /\ Step(p, [IdleHandler EXCEPT !.pc = "recv", !.method = m, !.host = h])
    /\ started' = started + 1
    /\ UNCHANGED <<units, srv, NotHandlers>>

(***************************************************************************)
(* handleHTTPS                                                             *)
(***************************************************************************)
\* Mutant: the empty host is not rejected; a leaf is made for it.
ConnectMissingHostLooksUp(p) ==
    /\ hs[p].pc = "recv" /\ hs[p].method = MethodConnect
    /\ hs[p].host = NoHost
    /\ mu = "unlocked"
    /\ Step(p, [hs[p] EXCEPT !.pc = "hijack", !.cert = TLSCert(ServerCert(NoHost, serials + 1))])
    /\ serials' = serials + 1
    /\ UNCHANGED <<units, srv, https, ca, certCache, requests, reqID, mu, rd, mintCalls, started>>

\* host == "": 400 and return.
ConnectMissingHost(p) ==
    /\ hs[p].pc = "recv" /\ hs[p].method = MethodConnect
    /\ hs[p].host = NoHost
    /\ Step(p, HTTPError(hs[p], StatusBadRequest, "missing host"))
    /\ UNCHANGED <<units, srv, NotHandlers, started>>

\* s.mu.Lock(); cert, ok := s.certCache[host]: a hit unlocks at once, a miss
\* goes on to generate the certificate with the mutex held.
ConnectLookup(p) ==
    /\ hs[p].pc = "recv" /\ hs[p].method = MethodConnect
    /\ hs[p].host # NoHost
    /\ CanLock
    /\ IF CacheHas(certCache, hs[p].host)
       THEN /\ Step(p, [hs[p] EXCEPT !.pc = "hijack", !.cert = certCache[hs[p].host],
                                     !.events = Append(@, "leaf")])
            /\ mu' = mu
       ELSE /\ Step(p, [hs[p] EXCEPT !.pc = "minting"])
            /\ mu' = "locked"
    /\ UNCHANGED <<units, srv, https, ca, certCache, requests, reqID, rd, mintCalls, serials, started>>

\* GenerateServerCert succeeded: store the tls.Certificate, unlock.
MintOk(p) ==
    /\ hs[p].pc = "minting"
    /\ ca # "nil"
    /\ LET host == hs[p].host
           cert == TLSCert(ServerCert(CertHostname(host), serials + 1))
       IN  /\ certCache' = CacheStore(certCache, host, cert)
           /\ mintCalls' = [mintCalls EXCEPT ![host] = [calls |-> @.calls + 1, ok |-> @.ok + 1]]
           /\ serials' = serials + 1
           /\ Step(p, [hs[p] EXCEPT !.pc = "hijack", !.cert = cert,
                                    !.events = Append(@, "leaf")])
    /\ mu' = "unlocked"
    /\ UNCHANGED <<units, srv, https, ca, requests, reqID, rd, started>>

\* Mutant: a failed mint leaves a leaf in the cache.
MintFailStoresLeaf(p) ==
    /\ hs[p].pc = "minting"
    /\ mintCalls' = [mintCalls EXCEPT ![hs[p].host].calls = @ + 1]
    /\ certCache' = CacheStore(certCache, hs[p].host,
                               TLSCert(ServerCert(CertHostname(hs[p].host), serials)))
    /\ Step(p, HTTPError(hs[p], StatusInternalServerError, "mint"))
    /\ mu' = "unlocked"
    /\ UNCHANGED <<units, srv, https, ca, requests, reqID, rd, serials, started>>

\* GenerateServerCert returned an error (key generation or signing failed):
\* unlock, 500, return. Nothing is stored.
MintFail(p) ==
    /\ hs[p].pc = "minting"
    /\ mintCalls' = [mintCalls EXCEPT ![hs[p].host].calls = @ + 1]
    /\ Step(p, HTTPError(hs[p], StatusInternalServerError, "mint"))
    /\ mu' = "unlocked"
    /\ UNCHANGED <<units, srv, https, ca, certCache, requests, reqID, rd, serials, started>>

\* s.CA is nil (Start loaded no CA): GenerateServerCert dereferences ca.Cert
\* and panics. The server recovers the panic and drops the connection; the
\* mutex, locked before the call and unlocked by no defer, stays locked.
MintPanic(p) ==
    /\ hs[p].pc = "minting"
    /\ ca = "nil"
    /\ mintCalls' = [mintCalls EXCEPT ![hs[p].host].calls = @ + 1]
    /\ Step(p, [hs[p] EXCEPT !.pc = "panicked", !.closed = TRUE, !.fail = "panic"])
    /\ UNCHANGED <<units, srv, https, ca, certCache, requests, reqID, mu, rd, serials, started>>

\* w.(http.Hijacker) fails: 500 and return.
HijackUnsupported(p) ==
    /\ hs[p].pc = "hijack"
    /\ Step(p, HTTPError(hs[p], StatusInternalServerError, "hijack unsupported"))
    /\ UNCHANGED <<units, srv, NotHandlers, started>>

\* hijacker.Hijack() returns an error: return.
HijackFail(p) ==
    /\ hs[p].pc = "hijack"
    /\ Step(p, Return([hs[p] EXCEPT !.fail = "hijack"]))
    /\ UNCHANGED <<units, srv, NotHandlers, started>>

\* Mutant: the handshake starts without the 200 line.
HijackOkNoAck(p) ==
    /\ hs[p].pc = "hijack"
    /\ Step(p, [hs[p] EXCEPT !.pc = "handshake", !.hijacked = TRUE,
                             !.events = Append(@, "hijack")])
    /\ UNCHANGED <<units, srv, NotHandlers, started>>

\* hijacker.Hijack() succeeds; defer clientConn.Close().
HijackOk(p) ==
    /\ hs[p].pc = "hijack"
    /\ Step(p, [hs[p] EXCEPT !.pc = "ack", !.hijacked = TRUE,
                             !.events = Append(@, "hijack")])
    /\ UNCHANGED <<units, srv, NotHandlers, started>>

\* clientConn.Write("HTTP/1.1 200 Connection Established\r\n\r\n")
WriteEstablished(p) ==
    /\ hs[p].pc = "ack"
    /\ \E ok \in BOOLEAN :
         IF ok
         THEN Step(p, [hs[p] EXCEPT !.pc = "handshake", !.raw = Append(@, Established),
                                    !.events = Append(@, "established")])
         ELSE Step(p, Return([hs[p] EXCEPT !.fail = "write 200"]))
    /\ UNCHANGED <<units, srv, NotHandlers, started>>

\* tlsConn := tls.Server(clientConn, {Certificates: [*cert]}); tlsConn.Handshake()
Handshake(p) ==
    /\ hs[p].pc = "handshake"
    /\ \E ok \in BOOLEAN :
         IF ok
         THEN Step(p, [hs[p] EXCEPT !.pc = "read",
                                    !.raw = Append(@, <<"ServerHello", hs[p].cert.Certificate>>),
                                    !.events = Append(@, "handshake")])
         ELSE Step(p, Return([hs[p] EXCEPT !.fail = "handshake"]))
    /\ UNCHANGED <<units, srv, NotHandlers, started>>

\* http.ReadRequest on the TLS stream.
ReadInner(p) ==
    /\ hs[p].pc = "read"
    /\ \E ok \in BOOLEAN :
         IF ok
         THEN Step(p, [hs[p] EXCEPT !.pc = "assign", !.events = Append(@, "read")])
         ELSE Step(p, Return([hs[p] EXCEPT !.fail = "read"]))
    /\ UNCHANGED <<units, srv, NotHandlers, started>>

\* s.mu.Lock(); s.reqID++; reqID := s.reqID; s.mu.Unlock()
TunnelAssignID(p) ==
    /\ hs[p].pc = "assign"
    /\ CanLock
    /\ reqID' = NextID(reqID)
    /\ Step(p, [hs[p] EXCEPT !.pc = "newreq", !.id = reqID'])
    /\ UNCHANGED <<units, srv, https, ca, certCache, requests, mu, rd, mintCalls, serials, started>>

\* http.NewRequest for the upstream leg; its error goes to logError.
TunnelNewRequest(p) ==
    /\ hs[p].pc = "newreq" /\ hs[p].method = MethodConnect
    /\ \E ok \in BOOLEAN :
         IF ok
         THEN Step(p, [hs[p] EXCEPT !.pc = "send"])
         ELSE Step(p, [hs[p] EXCEPT !.pc = "logerr", !.fail = ErrNewRequest])
    /\ UNCHANGED <<units, srv, NotHandlers, started>>

\* client.Do(proxyReq) with a certificate-verifying transport: the origin is
\* not reached, or it presents a chain that is refused (an error, as any other
\* transport failure), or its chain is accepted and it answers.
TunnelDo(p) ==
    /\ hs[p].pc = "send" /\ hs[p].method = MethodConnect
    /\ \/ Step(p, [hs[p] EXCEPT !.pc = "logerr", !.sent = @ + 1, !.fail = ErrTransport,
                                !.events = Append(@, "dispatch")])
       \/ \E chainValid \in BOOLEAN :
            LET o == IF chainValid THEN "valid" ELSE "invalid"
            IN  IF ChainAccepted(chainValid)
                THEN \E r \in Responses :
                       Step(p, [hs[p] EXCEPT !.pc = "respond", !.sent = @ + 1,
                                             !.origin = o, !.resp = r.status,
                                             !.respBody = r.body,
                                             !.events = Append(@, "dispatch")])
                ELSE Step(p, [hs[p] EXCEPT !.pc = "logerr", !.sent = @ + 1,
                                           !.origin = o, !.fail = ErrCertificate,
                                           !.events = Append(@, "dispatch")])
    /\ UNCHANGED <<units, srv, NotHandlers, started>>

\* logError(reqID, req, err), then return: the deferred Close ends the tunnel.
TunnelLogError(p) ==
    /\ hs[p].pc = "logerr" /\ hs[p].method = MethodConnect
    /\ CanLock
    /\ requests' = AppendRequest(requests,
                     ErrorRecord(hs[p].id, InnerRequest.method, RequestURL("https", hs[p].host),
                                 InnerRequest.host, hs[p].fail))
    /\ Step(p, Return([hs[p] EXCEPT !.appended = @ + 1]))
    /\ UNCHANGED <<units, srv, https, ca, certCache, reqID, mu, rd, mintCalls, serials, started>>

\* Mutant: a response that cannot be written is logged as an error.
TunnelRespondLogsFailure(p) ==
    /\ hs[p].pc = "respond" /\ hs[p].method = MethodConnect
    /\ Step(p, [hs[p] EXCEPT !.pc = "logerr", !.fail = "write response"])
    /\ UNCHANGED <<units, srv, NotHandlers, started>>

\* resp.Write(tlsConn): on an error return without logging.
TunnelRespond(p) ==
    /\ hs[p].pc = "respond" /\ hs[p].method = MethodConnect
    /\ \E ok \in BOOLEAN :
         IF ok
         THEN Step(p, [hs[p] EXCEPT !.pc = "log", !.tls = Append(@, hs[p].resp),
                                    !.body = hs[p].respBody,
                                    !.events = Append(@, "respond")])
         ELSE Step(p, Return([hs[p] EXCEPT !.fail = "write response"]))
    /\ UNCHANGED <<units, srv, NotHandlers, started>>

\* reqLog := Request{...} (no RespSize); append under the mutex; return.
TunnelLog(p) ==
    /\ hs[p].pc = "log" /\ hs[p].method = MethodConnect
    /\ CanLock
    /\ \E duration \in Elapsed :
         requests' = AppendRequest(requests,
                       RequestRecord(hs[p].id, InnerRequest.method,
                                     RequestURL("https", hs[p].host), InnerRequest.host,
                                     hs[p].resp, duration, 0, 0))
    /\ Step(p, Return([hs[p] EXCEPT !.appended = @ + 1]))
    /\ UNCHANGED <<units, srv, https, ca, certCache, reqID, mu, rd, mintCalls, serials, started>>

(***************************************************************************)
(* handleRequest, the plain-HTTP leg                                       *)
(***************************************************************************)
\* s.mu.Lock(); s.reqID++; reqID := s.reqID; s.mu.Unlock()
ForwardAssignID(p) ==
    /\ hs[p].pc = "recv" /\ hs[p].method # MethodConnect
    /\ CanLock
    /\ reqID' = NextID(reqID)
    /\ Step(p, [hs[p] EXCEPT !.pc = "newreq", !.id = reqID'])
    /\ UNCHANGED <<units, srv, https, ca, certCache, requests, mu, rd, mintCalls, serials, started>>

\* http.NewRequest(r.Method, targetURL, r.Body)
ForwardNewRequest(p) ==
    /\ hs[p].pc = "newreq" /\ hs[p].method # MethodConnect
    /\ \E ok \in BOOLEAN :
         IF ok
         THEN Step(p, [hs[p] EXCEPT !.pc = "send"])
         ELSE Step(p, [hs[p] EXCEPT !.pc = "logerr", !.fail = ErrNewRequest])
    /\ UNCHANGED <<units, srv, NotHandlers, started>>

\* client.Do(proxyReq)
ForwardDo(p) ==
    /\ hs[p].pc = "send" /\ hs[p].method # MethodConnect
    /\ \/ Step(p, [hs[p] EXCEPT !.pc = "logerr", !.sent = @ + 1, !.fail = ErrTransport,
                                !.events = Append(@, "dispatch")])
       \/ \E r \in Responses :
            Step(p, [hs[p] EXCEPT !.pc = "respond", !.sent = @ + 1, !.resp = r.status,
                                  !.respBody = r.body, !.events = Append(@, "dispatch")])
    /\ UNCHANGED <<units, srv, NotHandlers, started>>

\* s.logError(reqID, r, err); http.Error(w, ..., 502); return
ForwardLogError(p) ==
    /\ hs[p].pc = "logerr" /\ hs[p].method # MethodConnect
    /\ CanLock
    /\ requests' = AppendRequest(requests,
                     ErrorRecord(hs[p].id, hs[p].method, RequestURL("http", hs[p].host),
                                 hs[p].host, hs[p].fail))
    /\ Step(p, Return([hs[p] EXCEPT !.appended = @ + 1, !.status = StatusBadGateway]))
    /\ UNCHANGED <<units, srv, https, ca, certCache, reqID, mu, rd, mintCalls, serials, started>>

\* w.WriteHeader(resp.StatusCode); respSize, _ := io.Copy(w, resp.Body): the
\* copy stops early when the client is gone, and its error is dropped.
ForwardRespond(p) ==
    /\ hs[p].pc = "respond" /\ hs[p].method # MethodConnect
    /\ \E n \in {0, hs[p].respBody} :
         Step(p, [hs[p] EXCEPT !.pc = "log", !.status = hs[p].resp, !.body = n,
                               !.events = Append(@, "respond")])
    /\ UNCHANGED <<units, srv, NotHandlers, started>>

\* req := Request{...}; append under the mutex
ForwardLog(p) ==
    /\ hs[p].pc = "log" /\ hs[p].method # MethodConnect
    /\ CanLock
    /\ \E duration \in Elapsed :
         requests' = AppendRequest(requests,
                       RequestRecord(hs[p].id, hs[p].method, RequestURL("http", hs[p].host),
                                     hs[p].host, hs[p].resp, duration, 0, hs[p].body))
    /\ Step(p, Return([hs[p] EXCEPT !.appended = @ + 1]))
    /\ UNCHANGED <<units, srv, https, ca, certCache, reqID, mu, rd, mintCalls, serials, started>>

(***************************************************************************)
(* The readers of the capture log                                          *)
(***************************************************************************)
NotReader == <<units, srv, https, ca, certCache, requests, reqID, mu, hs, mintCalls, serials, started>>

\* GetRequests: s.mu.RLock(); defer s.mu.RUnlock()
GetRequestsRLock ==
    /\ rd.pc = "idle"
    /\ CanRLock
    /\ rd' = [rd EXCEPT !.pc = "rlocked", !.op = "GetRequests"]
    /\ UNCHANGED NotReader

\* reqs := make(...); copy(reqs, s.requests)
GetRequestsCopy ==
    /\ rd.pc = "rlocked"
    /\ rd' = [rd EXCEPT !.pc = "copied", !.snap = CopyRequests(requests)]
    /\ UNCHANGED NotReader

\* return reqs, running the deferred RUnlock
GetRequestsReturn ==
    /\ rd.pc = "copied"
    /\ rd' = [rd EXCEPT !.pc = "returned"]
    /\ UNCHANGED NotReader

\* Duration.Milliseconds(): the whole milliseconds of a duration.
Milliseconds(d) == d \div Millisecond

\* Mutant: no record is skipped.
FailedNever(req) == FALSE

\* if req.Error != "" { continue }
Failed(req) == req.Error # ""

\* The orders in which "for name, values := range req.Headers" may visit the
\* keys of the map: Go leaves the order of a map's iteration open, so every
\* listing of the keys, each once, is possible.
KeyOrders(h) ==
    {o \in [1..Cardinality(DOMAIN h) -> DOMAIN h] :
        \A i, j \in DOMAIN o : o[i] = o[j] => i = j}

\* The inner loop: one HARHeader per value, the values of a key in their order.
RECURSIVE HARHeaders(_, _)
HARHeaders(h, order) ==
    IF order = <<>> THEN <<>>
    ELSE [i \in 1..Len(h[Head(order)]) |-> [name |-> Head(order), value |-> h[Head(order)][i]]]
         \o HARHeaders(h, Tail(order))

\* One HAR entry of a record: the fields the record decides, and its headers
\* in the order the map gave them.
HAREntry(req, order) ==
    [time |-> Milliseconds(req.Duration),
     method |-> req.Method, url |-> req.URL, requestBodySize |-> req.ReqSize,
     headers |-> HARHeaders(req.Headers, order),
     status |-> req.StatusCode, contentSize |-> req.RespSize, bodySize |-> req.RespSize,
     wait |-> Milliseconds(req.Duration)]

\* The loop of ExportHAR over s.requests: a record with an Error is skipped.
\* The entry lists the loop may end with, one for each choice of key orders.
RECURSIVE HAREntries(_)
HAREntries(log) ==
    IF log = <<>> THEN {<<>>}
    ELSE IF Failed(Head(log)) THEN HAREntries(Tail(log))
    ELSE {<<HAREntry(Head(log), o)>> \o rest :
             o \in KeyOrders(Head(log).Headers), rest \in HAREntries(Tail(log))}

\* ExportHAR: s.mu.RLock(); defer s.mu.RUnlock()
ExportRLock ==
    /\ rd.pc = "idle"
    /\ CanRLock
    /\ rd' = [rd EXCEPT !.pc = "exporting", !.op = "ExportHAR"]
    /\ UNCHANGED NotReader

\* the loop; json.MarshalIndent; os.WriteFile; return (RUnlock)
ExportWrite ==
    /\ rd.pc = "exporting"
    /\ \E ok \in BOOLEAN, entries \in HAREntries(requests) :
         rd' = [rd EXCEPT !.pc = "returned", !.har = IF ok THEN entries ELSE @]
    /\ UNCHANGED NotReader

HandlerNext ==
    \/ Start
    \/ ListenAndServe
    \/ \E p \in Handlers :
         \/ Accept(p)
         \/ ConnectMissingHost(p)
         \/ ConnectLookup(p)
         \/ MintOk(p)
         \/ MintFail(p)
         \/ MintPanic(p)
         \/ HijackUnsupported(p)
         \/ HijackFail(p)
         \/ HijackOk(p)
         \/ WriteEstablished(p)
         \/ Handshake(p)
         \/ ReadInner(p)
         \/ TunnelAssignID(p)
         \/ TunnelNewRequest(p)
         \/ TunnelDo(p)
         \/ TunnelLogError(p)
         \/ TunnelRespond(p)
         \/ TunnelLog(p)
         \/ ForwardAssignID(p)
         \/ ForwardNewRequest(p)
         \/ ForwardDo(p)
         \/ ForwardLogError(p)
         \/ ForwardRespond(p)
         \/ ForwardLog(p)

ReaderNext ==
    \/ GetRequestsRLock
    \/ GetRequestsCopy
    \/ GetRequestsReturn
    \/ ExportRLock
    \/ ExportWrite

Next == HandlerNext \/ ReaderNext

\* The whole server: the handlers and a reader of the capture log.
Spec == Init /\ [][Next]_vars

\* The handlers alone; the reader never calls.
HandlerSpec == Init /\ [][HandlerNext]_vars

(***************************************************************************)
(* The headers of the upstream request. A header name is a sequence of     *)
(* characters; an http.Header maps canonical names to their values.        *)
(***************************************************************************)
MaxFields == 2

Lowers == <<"a", "b", "c", "d", "e", "f", "g", "h", "i", "j", "k", "l", "m", "n", "o", "p", "q", "r", "s", "t", "u", "v", "w", "x", "y", "z">>
Uppers == <<"A", "B", "C", "D", "E", "F", "G", "H", "I", "J", "K", "L", "M", "N", "O", "P", "Q", "R", "S", "T", "U", "V", "W", "X", "Y", "Z">>

ToUpper(c) ==
    IF \E i \in 1..Len(Lowers) : Lowers[i] = c
    THEN Uppers[CHOOSE i \in 1..Len(Lowers) : Lowers[i] = c] ELSE c

ToLower(c) ==
    IF \E i \in 1..Len(Uppers) : Uppers[i] = c
    THEN Lowers[CHOOSE i \in 1..Len(Uppers) : Uppers[i] = c] ELSE c

\* textproto.CanonicalMIMEHeaderKey: the first letter and every letter after
\* a hyphen in upper case, the others in lower case.
CanonicalMIMEHeaderKey(s) ==
    [i \in 1..Len(s) |-> IF i = 1 \/ s[i-1] = "-" THEN ToUpper(s[i]) ELSE ToLower(s[i])]

\* http.Header.Add(key, value)
HeaderAdd(h, key, value) ==
    LET k == CanonicalMIMEHeaderKey(key)
    IN  [x \in DOMAIN h \cup {k} |->
           IF x = k THEN (IF k \in DOMAIN h THEN Append(h[k], value) ELSE <<value>>)
           ELSE h[x]]

\* http.Header.Set(key, value)
HeaderSet(h, key, value) ==
    LET k == CanonicalMIMEHeaderKey(key)
    IN  [x \in DOMAIN h \cup {k} |-> IF x = k THEN <<value>> ELSE h[x]]

\* http.Header.Del(key)
HeaderDel(h, key) ==
    [x \in DOMAIN h \ {CanonicalMIMEHeaderKey(key)} |-> h[x]]

\* The header block of a request as the server (or http.ReadRequest inside
\* the tunnel) reads it: every field is added under its canonical name.
RECURSIVE ReadHeaders(_)
ReadHeaders(wire) ==
    IF wire = <<>> THEN NoHeaders
    ELSE LET f == wire[Len(wire)]
         IN  HeaderAdd(ReadHeaders(SubSeq(wire, 1, Len(wire) - 1)), f.name, f.value)

\* for _, value := range values { proxyReq.Header.Add(key, value) }
RECURSIVE AddValues(_, _, _)
AddValues(dst, key, values) ==
    IF values = <<>> THEN dst
    ELSE AddValues(HeaderAdd(dst, key, Head(values)), key, Tail(values))

\* for key, values := range r.Header { ... }: the keys come in any order.
RECURSIVE CopyKeys(_, _, _)
CopyKeys(dst, src, keys) ==
    IF keys = {} THEN dst
    ELSE LET key == CHOOSE k \in keys : TRUE
         IN  CopyKeys(AddValues(dst, key, src[key]), src, keys \ {key})

CopyHeaders(src) == CopyKeys(NoHeaders, src, DOMAIN src)

hopHeaders ==
    <<<<"C", "o", "n", "n", "e", "c", "t", "i", "o", "n">>,
      <<"P", "r", "o", "x", "y", "-", "C", "o", "n", "n", "e", "c", "t", "i", "o", "n">>,
      <<"K", "e", "e", "p", "-", "A", "l", "i", "v", "e">>,
      <<"P", "r", "o", "x", "y", "-", "A", "u", "t", "h", "e", "n", "t", "i", "c", "a", "t", "e">>,
      <<"P", "r", "o", "x", "y", "-", "A", "u", "t", "h", "o", "r", "i", "z", "a", "t", "i", "o", "n">>,
      <<"T", "e">>,
      <<"T", "r", "a", "i", "l", "e", "r">>,
      <<"T", "r", "a", "n", "s", "f", "e", "r", "-", "E", "n", "c", "o", "d", "i", "n", "g">>,
      <<"U", "p", "g", "r", "a", "d", "e">>>>

\* Mutant: no header is removed.
RemoveNoHeaders(h) == h

\* removeHopHeaders: for _, header := range hopHeaders { h.Del(header) }
RECURSIVE DelAll(_, _)
DelAll(h, names) ==
    IF names = <<>> THEN h ELSE DelAll(HeaderDel(h, Head(names)), Tail(names))

removeHopHeaders(h) == DelAll(h, hopHeaders)

\* Mutant: the configured headers are not applied.
ApplyNoInjected(h, inject) == h

\* The configured headers, set on the upstream request after the stripping.
RECURSIVE SetKeys(_, _, _)
SetKeys(h, inject, keys) ==
    IF keys = {} THEN h
    ELSE LET key == CHOOSE k \in keys : TRUE
         IN  SetKeys(HeaderSet(h, key, inject[key]), inject, keys \ {key})

ApplyInjected(h, inject) == SetKeys(h, inject, DOMAIN inject)

\* The header fields a client may send, as it spells them.
WireFields ==
    {[name |-> <<"c", "o", "n", "n", "e", "c", "t", "i", "o", "n">>, value |-> "close"],
     [name |-> <<"P", "r", "o", "x", "y", "-", "C", "o", "n", "n", "e", "c", "t", "i", "o", "n">>, value |-> "keep-alive"],
     [name |-> <<"K", "E", "E", "P", "-", "A", "L", "I", "V", "E">>, value |-> "timeout=5"],
     [name |-> <<"P", "r", "o", "x", "y", "-", "A", "u", "t", "h", "e", "n", "t", "i", "c", "a", "t", "e">>, value |-> "Basic"],
     [name |-> <<"p", "r", "o", "x", "y", "-", "a", "u", "t", "h", "o", "r", "i", "z", "a", "t", "i", "o", "n">>, value |-> "Basic Zm9v"],
     [name |-> <<"t", "e">>, value |-> "trailers"],
     [name |-> <<"T", "E">>, value |-> "gzip"],
     [name |-> <<"T", "r", "a", "i", "l", "e", "r">>, value |-> "Expires"],
     [name |-> <<"T", "r", "a", "n", "s", "f", "e", "r", "-", "E", "n", "c", "o", "d", "i", "n", "g">>, value |-> "chunked"],
     [name |-> <<"u", "p", "g", "r", "a", "d", "e">>, value |-> "websocket"],
     [name |-> <<"A", "c", "c", "e", "p", "t">>, value |-> "text/html"],
     [name |-> <<"a", "c", "c", "e", "p", "t">>, value |-> "text/plain"],
     [name |-> <<"x", "-", "a", "d", "d", "e", "d">>, value |-> "0"],
     [name |-> <<"X", "-", "K", "e", "e", "p">>, value |-> "yes"]}

RECURSIVE SeqsUpTo(_, _)
SeqsUpTo(S, n) ==
    IF n = 0 THEN {<<>>}
    ELSE LET shorter == SeqsUpTo(S, n - 1)
         IN  shorter \cup {Append(q, x) : q \in shorter, x \in S}

\* Server.InjectHeaders: nothing, a header of its own, and one the client
\* may send too.
InjectConfigs ==
    {NoHeaders,
     [k \in {<<"x", "-", "a", "d", "d", "e", "d">>} |-> "1"],
     [k \in {<<"X", "-", "A", "d", "d", "e", "d">>, <<"C", "o", "n", "n", "e", "c", "t", "i", "o", "n">>} |-> "1"]}

Paths == {"forward", "tunnel"}

HeaderInit ==
    /\ ServerInit
    /\ https = FALSE
    /\ hdr \in [stage : {"wire"}, path : Paths, wire : SeqsUpTo(WireFields, MaxFields),
                inject : InjectConfigs, in : {NoHeaders}, out : {NoHeaders},
                stripped : {NoHeaders}, rec : {[Headers |-> "nil"]}]
    /\ flt = IdleFilter
    /\ har = IdleExport
    /\ disk = IdleDisk
    /\ rty = IdleRetry

NotHeaders == <<server, flt, har, disk, rty>>

\* The request reaches the handler with its header block parsed.
ReadRequestHeaders ==
    /\ hdr.stage = "wire"
    /\ hdr' = [hdr EXCEPT !.stage = "read", !.in = ReadHeaders(hdr.wire)]
    /\ UNCHANGED NotHeaders

\* // Copy headers
CopyRequestHeaders ==
    /\ hdr.stage = "read"
    /\ hdr' = [hdr EXCEPT !.stage = "copied", !.out = CopyHeaders(hdr.in)]
    /\ UNCHANGED NotHeaders

\* removeHopHeaders(proxyReq.Header)
StripHopHeaders ==
    /\ hdr.stage = "copied"
    /\ hdr' = [hdr EXCEPT !.stage = "stripped", !.out = removeHopHeaders(hdr.out),
                          !.stripped = removeHopHeaders(hdr.out)]
    /\ UNCHANGED NotHeaders

\* The configured headers go on last; client.Do then sends the request.
InjectAndDispatch ==
    /\ hdr.stage = "stripped"
    /\ hdr' = [hdr EXCEPT !.stage = "dispatched", !.out = ApplyInjected(hdr.out, hdr.inject)]
    /\ UNCHANGED NotHeaders

\* Request{..., Headers: r.Header}: a Go map value is a reference, so the
\* record holds the request's own header map, not a copy of it.
LogHeaders ==
    /\ hdr.stage = "dispatched"
    /\ hdr' = [hdr EXCEPT !.stage = "logged", !.rec = [Headers |-> "r.Header"]]
    /\ UNCHANGED NotHeaders

\* The map a reference stands for.
Deref(ref) ==
    CASE ref = "r.Header" -> hdr.in
      [] ref = "proxyReq.Header" -> hdr.out
      [] OTHER -> NoHeaders

\* Whoever holds the request's header map afterwards sets a field of it: the
\* owner of the request, or a caller of GetRequests, whose copied records
\* share the map with the stored ones.
ChangeRequestHeader ==
    /\ hdr.stage = "logged"
    /\ hdr' = [hdr EXCEPT !.stage = "changed",
                          !.in = HeaderSet(@, <<"X", "-", "K", "e", "e", "p">>, "changed")]
    /\ UNCHANGED NotHeaders

HeaderNext ==
    \/ ReadRequestHeaders
    \/ CopyRequestHeaders
    \/ StripHopHeaders
    \/ InjectAndDispatch
    \/ LogHeaders
    \/ ChangeRequestHeader

\* One request's headers from the client to the upstream request.
HeaderSpec == HeaderInit /\ [][HeaderNext]_vars

(***************************************************************************)
(* The filters of the capture log: Server.FilterDomain, FilterMethods and  *)
(* FilterErrors, and one request forwarded under them.                     *)
(***************************************************************************)
InSeq(x, s) == \E i \in 1..Len(s) : s[i] = x

\* contains(s, substr): substr occurs in s; the empty string occurs in all.
contains(str, substr) ==
    \E i \in 0..(Len(str) - Len(substr)) : SubSeq(str, i + 1, i + Len(substr)) = substr

\* Mutant: nothing is ever suppressed.
shouldFilterNever(cfg, method, host, statusCode) == FALSE

\* Server.shouldFilter(method, host, statusCode): TRUE when the request is to
\* be kept out of the log and the display.
shouldFilter(cfg, method, host, statusCode) ==
    IF cfg.domain # <<>> /\ ~ contains(host, cfg.domain) THEN TRUE
    ELSE IF Len(cfg.methods) > 0 /\ ~ InSeq(method, cfg.methods) THEN TRUE
    ELSE IF cfg.errorsOnly /\ statusCode < 400 THEN TRUE
    ELSE FALSE

\* Mutant: the record is appended whatever the filter says.
LogAlways(log, req, suppressed) == Append(log, req)

\* The record of a forwarded request is appended unless it is suppressed.
LogUnlessFiltered(log, req, suppressed) ==
    IF suppressed THEN log ELSE Append(log, req)

FilterDomains == {<<>>, <<"a">>, <<"b", ".", "a">>}
FilterMethodSets == {<<>>, <<"GET">>, <<"GET", "PUT">>}
FilterConfigs ==
    [domain : FilterDomains, methods : FilterMethodSets, errorsOnly : BOOLEAN]

FilterHosts == {<<"a">>, <<"b", ".", "a">>, <<"c">>}
FilterRequestMethods == {"GET", "POST"}
FilterStatuses == {200, 399, 400, 500}

FilterInit ==
    /\ ServerInit
    /\ https = FALSE
    /\ flt \in [stage : {"recv"}, cfg : FilterConfigs, method : FilterRequestMethods,
                host : FilterHosts, sent : {0}, resp : {0}, status : {0},
                suppressed : {FALSE}, log : {<<>>}]
    /\ hdr = IdleHeaders
    /\ har = IdleExport
    /\ disk = IdleDisk
    /\ rty = IdleRetry

NotFilter == <<server, hdr, har, disk, rty>>

\* client.Do(proxyReq): the request goes upstream, the origin answers.
FilterDispatch ==
    /\ flt.stage = "recv"
    /\ \E status \in FilterStatuses :
         flt' = [flt EXCEPT !.stage = "respond", !.sent = @ + 1, !.resp = status]
    /\ UNCHANGED NotFilter

\* The response is written back to the client.
FilterRespond ==
    /\ flt.stage = "respond"
    /\ flt' = [flt EXCEPT !.stage = "log", !.status = flt.resp]
    /\ UNCHANGED NotFilter

\* The record is logged and shown unless shouldFilter suppresses it.
FilterLog ==
    /\ flt.stage = "log"
    /\ LET suppressed == shouldFilter(flt.cfg, flt.method, flt.host, flt.resp)
           req == RequestRecord(1, flt.method, RequestURL("http", flt.host), flt.host,
                                flt.resp, Millisecond, 0, 0)
       IN  flt' = [flt EXCEPT !.stage = "done", !.suppressed = suppressed,
                              !.log = LogUnlessFiltered(@, req, suppressed)]
    /\ UNCHANGED NotFilter

FilterNext ==
    \/ FilterDispatch
    \/ FilterRespond
    \/ FilterLog

\* One request forwarded by a server with filters configured.
FilterSpec == FilterInit /\ [][FilterNext]_vars

(***************************************************************************)
(* ExportHAR on a capture log of its own, one record of the loop at a time.*)
(***************************************************************************)
MaxRecords == 3

\* Durations on both sides of a whole millisecond.
HarDurations == {0, 999999, 1500000, 100 * Millisecond}

\* The records a capture log may hold (their ids are given by their place).
\* The headers of the records: one field, and two fields, one of two values.
GetHeaders == HeaderAdd(NoHeaders, <<"A", "c", "c", "e", "p", "t">>, "text/html")
PostHeaders ==
    HeaderAdd(HeaderAdd(GetHeaders, <<"A", "c", "c", "e", "p", "t">>, "text/plain"),
              <<"X", "-", "K", "e", "e", "p">>, "yes")

HarRecords ==
    {[RequestRecord(0, "GET", RequestURL("http", HostBare), HostBare, 200, d, 0, n)
        EXCEPT !.Headers = GetHeaders] :
       d \in HarDurations, n \in {0, 1024}}
    \cup {[RequestRecord(0, "POST", RequestURL("https", Host443), HostBare, 201,
                         200 * Millisecond, 512, 256) EXCEPT !.Headers = PostHeaders]}
    \cup {ErrorRecord(0, "GET", RequestURL("http", HostBare), HostBare, ErrTransport)}

HarLogs ==
    {[i \in 1..Len(log) |-> [log[i] EXCEPT !.ID = i]] : log \in SeqsUpTo(HarRecords, MaxRecords)}

HarInit ==
    /\ ServerInit
    /\ https = FALSE
    /\ har \in [stage : {"loop"}, log : HarLogs, i : {1}, entries : {<<>>}, file : {<<>>},
                run : {"first"}, before : {<<>>}]
    /\ hdr = IdleHeaders
    /\ flt = IdleFilter
    /\ disk = IdleDisk
    /\ rty = IdleRetry

NotExport == <<server, hdr, flt, disk, rty>>

\* for _, req := range s.requests: skip a failed record, else append its entry.
HarLoop ==
    /\ har.stage = "loop"
    /\ har.i <= Len(har.log)
    /\ LET req == har.log[har.i]
       IN  \E order \in KeyOrders(req.Headers) :
             har' = [har EXCEPT !.i = @ + 1,
                                !.entries = IF Failed(req) THEN @
                                            ELSE Append(@, HAREntry(req, order))]
    /\ UNCHANGED NotExport

\* json.MarshalIndent(har); os.WriteFile(filename, data, 0644)
HarWriteFile ==
    /\ har.stage = "loop"
    /\ har.i > Len(har.log)
    /\ \E ok \in BOOLEAN :
         IF ok THEN har' = [har EXCEPT !.stage = "written", !.file = har.entries]
               ELSE har' = [har EXCEPT !.stage = "failed"]
    /\ UNCHANGED NotExport

\* ExportHAR is called once more on the same log, the file of the first call kept.
HarExportAgain ==
    /\ har.stage = "written"
    /\ har.run = "first"
    /\ har' = [har EXCEPT !.stage = "loop", !.run = "second", !.i = 1, !.entries = <<>>,
                          !.before = har.file, !.file = <<>>]
    /\ UNCHANGED NotExport

HarNext ==
    \/ HarLoop
    \/ HarWriteFile
    \/ HarExportAgain

\* ExportHAR on a given log, and once more on the same log.
HarSpec == HarInit /\ [][HarNext]_vars

(***************************************************************************)
(* GetCA on the two files of the CA directory. A file is absent, or holds  *)
(* the PEM of the root with some number, or is there but cannot be read,   *)
(* decoded or parsed.                                                      *)
(***************************************************************************)
MaxLoads == 3

Absent == [kind |-> "absent", root |-> 0]
Pem(n) == [kind |-> "pem", root |-> n]
Unreadable == [kind |-> "unreadable", root |-> 0]
NotPem == [kind |-> "not pem", root |-> 0]
NotParsable == [kind |-> "not parsable", root |-> 0]

\* What GetCA may find in the CA directory: nothing, the files of an earlier
\* run (root 0), or damaged ones.
FoundFiles == {Absent, Pem(0), Unreadable, NotPem, NotParsable}

\* Mutant: a file counts as missing unless it holds a PEM.
fileExistsIfPem(file) == file.kind = "pem"

\* Mutant: no file is ever found.
fileExistsNever(file) == FALSE

\* fileExists: os.Stat succeeds.
fileExists(file) == file.kind # "absent"

\* os.ReadFile, pem.Decode and the x509 parser on one file: the error, if any.
ReadPemError(file, what) ==
    CASE file.kind = "unreadable" -> <<"failed to read CA ", what>>
      [] file.kind = "not pem" -> <<"failed to decode CA ", what, " PEM">>
      [] file.kind = "not parsable" -> <<"failed to parse CA ", what>>
      [] OTHER -> <<>>

NoCA == [Cert |-> -1, PrivateKey |-> -1]

\* loadCA: the certificate first, then the key; the first error is returned.
loadCA(certFile, keyFile) ==
    IF ReadPemError(certFile, "cert") # <<>>
    THEN [ca |-> NoCA, err |-> ReadPemError(certFile, "cert")]
    ELSE IF ReadPemError(keyFile, "key") # <<>>
    THEN [ca |-> NoCA, err |-> ReadPemError(keyFile, "key")]
    ELSE [ca |-> [Cert |-> certFile.root, PrivateKey |-> keyFile.root], err |-> <<>>]

\* How far generateCA gets: each step before the last return is an error exit.
GenerateExits == {"generate key", "create certificate", "mkdir", "write cert", "write key", "ok"}

\* generateCA for the root numbered n: what it returns and what is on disk
\* afterwards. The certificate is written before the key.
generateCA(certFile, keyFile, n, exit) ==
    LET made == exit \notin {"generate key", "create certificate"}
        certWritten == exit \in {"write key", "ok"}
        keyWritten == exit = "ok"
    IN  [ca |-> IF exit = "ok" THEN [Cert |-> n, PrivateKey |-> n] ELSE NoCA,
         err |-> IF exit = "ok" THEN <<>> ELSE <<"failed to ", exit>>,
         generated |-> made,
         cert |-> IF certWritten THEN Pem(n) ELSE certFile,
         key |-> IF keyWritten THEN Pem(n) ELSE keyFile,
         wrote |-> (IF certWritten THEN {"cert"} ELSE {}) \cup (IF keyWritten THEN {"key"} ELSE {})]

DiskInit ==
    /\ ServerInit
    /\ https = TRUE
    /\ disk \in [stage : {"ready"}, cert : FoundFiles, key : FoundFiles,
                 roots : {0}, calls : {<<>>}]
    /\ hdr = IdleHeaders
    /\ flt = IdleFilter
    /\ har = IdleExport
    /\ rty = IdleRetry

NotDisk == <<server, hdr, flt, har, rty>>

\* What one call of GetCA found, did and returned.
Call(kind, r, generated, wrote, cert, key) ==
    [kind |-> kind, ca |-> r.ca, err |-> r.err, generated |-> generated, wrote |-> wrote,
     certBefore |-> disk.cert, keyBefore |-> disk.key, certAfter |-> cert, keyAfter |-> key]

\* GetCA when both files exist: loadCA.
GetCALoad ==
    /\ Len(disk.calls) < MaxLoads
    /\ fileExists(disk.cert) /\ fileExists(disk.key)
    /\ LET r == loadCA(disk.cert, disk.key)
       IN  disk' = [disk EXCEPT !.calls = Append(@, Call("load", r, FALSE, {}, disk.cert, disk.key))]
    /\ UNCHANGED NotDisk

\* GetCA when a file is missing: generateCA.
GetCAGenerate ==
    /\ Len(disk.calls) < MaxLoads
    /\ ~ (fileExists(disk.cert) /\ fileExists(disk.key))
    /\ \E exit \in GenerateExits :
         LET r == generateCA(disk.cert, disk.key, disk.roots + 1, exit)
         IN  disk' = [disk EXCEPT
                        !.cert = r.cert, !.key = r.key,
                        !.roots = IF r.generated THEN @ + 1 ELSE @,
                        !.calls = Append(@, Call("generate", r, r.generated, r.wrote, r.cert, r.key))]
    /\ UNCHANGED NotDisk

DiskNext ==
    \/ GetCALoad
    \/ GetCAGenerate

\* The calls of GetCA of successive runs on one CA directory.
DiskSpec == DiskInit /\ [][DiskNext]_vars

(***************************************************************************)
(* The retry loop of httpclient.Do under its retry.Policy                  *)
(***************************************************************************)
MaxRetryCount == 2

\* Request.RetryCount as the command line may give it.
RetryCounts == -1..MaxRetryCount

\* strconv.Atoi on the parts used here: defined where the part is a number.
Atoi == [part \in {"503", "429"} |-> IF part = "503" THEN 503 ELSE 429]

\* The range expressions used here, as matchesStatusRange reads them: the
\* one-character prefix of "Nxx", or an operator and its number.
RangeExprs ==
    [part \in {"5xx", "4xx", ">=500", "<400", "!=200", "bogus"} |->
        CASE part = "5xx" -> [op |-> "xx", val |-> 5]
          [] part = "4xx" -> [op |-> "xx", val |-> 4]
          [] part = ">=500" -> [op |-> ">=", val |-> 500]
          [] part = "<400" -> [op |-> "<", val |-> 400]
          [] part = "!=200" -> [op |-> "!=", val |-> 200]
          [] OTHER -> [op |-> "", val |-> 0]]

\* The first character of fmt.Sprintf("%d", statusCode).
RECURSIVE LeadingDigit(_)
LeadingDigit(n) == IF n < 10 THEN n ELSE LeadingDigit(n \div 10)

matchesStatusRange(statusCode, rangeExpr) ==
    LET e == IF rangeExpr \in DOMAIN RangeExprs THEN RangeExprs[rangeExpr]
             ELSE [op |-> "", val |-> 0]
    IN  CASE e.op = "xx" -> LeadingDigit(statusCode) = e.val
          [] e.op = ">=" -> statusCode >= e.val
          [] e.op = "<=" -> statusCode <= e.val
          [] e.op = ">" -> statusCode > e.val
          [] e.op = "<" -> statusCode < e.val
          [] e.op = "==" -> statusCode = e.val
          [] e.op = "!=" -> statusCode # e.val
          [] OTHER -> FALSE

matchesCondition(cond, statusCode, isNetworkError) ==
    CASE cond.Type = "always" -> TRUE
      [] cond.Type = "never" -> FALSE
      [] cond.Type = "network_error" -> isNetworkError
      [] cond.Type = "status" ->
            cond.Value \in DOMAIN Atoi /\ statusCode = Atoi[cond.Value]
      [] cond.Type = "status_range" -> matchesStatusRange(statusCode, cond.Value)
      [] OTHER -> FALSE

matchesConditions(p, statusCode, isNetworkError) ==
    IF Len(p.Conditions) = 0
    THEN IF isNetworkError THEN TRUE ELSE statusCode >= 500
    ELSE \E i \in 1..Len(p.Conditions) :
            matchesCondition(p.Conditions[i], statusCode, isNetworkError)

\* Mutant: with no conditions every error status is retried too.
ShouldRetryClientErrors(p, statusCode, err) ==
    IF err THEN matchesConditions(p, 0, TRUE)
    ELSE statusCode >= 400 \/ matchesConditions(p, statusCode, FALSE)

ShouldRetry(p, statusCode, err) ==
    IF err THEN matchesConditions(p, 0, TRUE)
    ELSE matchesConditions(p, statusCode, FALSE)

\* One part of the comma-separated condition string, already trimmed.
ParseCondition(part) ==
    CASE part = "always" -> [Type |-> "always", Value |-> ""]
      [] part = "never" -> [Type |-> "never", Value |-> ""]
      [] part = "network_error" -> [Type |-> "network_error", Value |-> ""]
      [] part \in DOMAIN Atoi -> [Type |-> "status", Value |-> part]
      [] OTHER -> [Type |-> "status_range", Value |-> part]

\* ParseConditions on the parts strings.Split gives: empty parts are skipped.
RECURSIVE ParseConditions(_)
ParseConditions(parts) ==
    IF parts = <<>> THEN <<>>
    ELSE IF Head(parts) = "" THEN ParseConditions(Tail(parts))
    ELSE <<ParseCondition(Head(parts))>> \o ParseConditions(Tail(parts))

\* Request.RetryCondition, split at its commas.
RetryConditions ==
    {<<>>, <<"">>, <<"always">>, <<"never">>, <<"network_error">>, <<"503">>,
     <<"5xx">>, <<">=500">>, <<"<400">>, <<"!=200">>, <<"bogus">>,
     <<"429", "5xx">>, <<"4xx", "network_error">>, <<"never", "503">>}

\* What doRequest comes back with: an error, or a response with its status.
Outcomes ==
    {[err |-> TRUE, status |-> 0]} \cup
    {[err |-> FALSE, status |-> c] : c \in {200, 404, 429, 499, 500, 503}}

RetryInit ==
    /\ ServerInit
    /\ https = FALSE
    /\ rty \in [stage : {"called"}, RetryCount : RetryCounts, RetryCondition : RetryConditions,
                policy : {[MaxRetries |-> 0, Conditions |-> <<>>]}, maxRetries : {0},
                attempt : {0}, outcomes : {<<>>}, slept : {0}]
    /\ hdr = IdleHeaders
    /\ flt = IdleFilter
    /\ har = IdleExport
    /\ disk = IdleDisk

NotRetry == <<server, hdr, flt, har, disk>>

\* Do up to its loop: the policy from the request, maxRetries never negative.
DoPolicy ==
    /\ rty.stage = "called"
    /\ rty' = [rty EXCEPT !.stage = "loop",
                          !.policy = [MaxRetries |-> rty.RetryCount,
                                      Conditions |-> ParseConditions(rty.RetryCondition)],
                          !.maxRetries = IF rty.RetryCount < 0 THEN 0 ELSE rty.RetryCount]
    /\ UNCHANGED NotRetry

\* One turn of the loop: the backoff before a retry, doRequest, and either the
\* break (and with it the return) or the next attempt.
DoAttempt ==
    /\ rty.stage = "loop"
    /\ rty.attempt <= rty.maxRetries
    /\ \E o \in Outcomes :
         LET backoff == IF rty.attempt > 0 THEN 2 ^ (rty.attempt - 1) ELSE 0
             shouldRetry == /\ rty.attempt < rty.maxRetries
                            /\ ShouldRetry(rty.policy, o.status, o.err)
         IN  rty' = [rty EXCEPT !.outcomes = Append(@, o),
                                !.slept = @ + backoff,
                                !.attempt = IF shouldRetry THEN @ + 1 ELSE @,
                                !.stage = IF shouldRetry THEN "loop" ELSE "returned"]
    /\ UNCHANGED NotRetry

RetryNext ==
    \/ DoPolicy
    \/ DoAttempt

\* One call of Do.
RetrySpec == RetryInit /\ [][RetryNext]_vars

(***************************************************************************)
(* Properties                                                              *)
(***************************************************************************)
IsPrefix(s, t) == Len(s) <= Len(t) /\ SubSeq(t, 1, Len(s)) = s

IsConnect(p) == hs[p].method = MethodConnect

\* The scaled stand-in of the retention limit N = 10 000 the capture log is
\* said to have; nothing in the server reads such a limit.
LogCap == 1

\* The authority without its port: what precedes the first colon.
HostWithoutPort(host) ==
    IF IndexByte(host, ":") = 0 THEN host ELSE SubSeq(host, 1, IndexByte(host, ":") - 1)

\* The order of the steps of one CONNECT.
ConnectOrder ==
    <<"leaf", "hijack", "established", "handshake", "read", "dispatch", "respond">>

\* C1 as stated: for every host key GenerateServerCert is invoked at most
\* once in the life of the process.
C1_MintInvokedAtMostOnce ==
    \A k \in HostKeys : mintCalls[k].calls <= 1

\* C1 amended: for every host key GenerateServerCert returns a certificate at
\* most once; it is invoked only by the one handler that holds the mutex after
\* a lookup that missed, and the cache holds a leaf for the key exactly when an
\* invocation has succeeded, so every lookup after a success hits. (An
\* invocation that fails stores nothing and may be followed by another.)
C1_SingleFlight ==
    /\ \A k \in HostKeys :
         /\ mintCalls[k].ok <= 1
         /\ mintCalls[k].ok = 1 <=> CacheHas(certCache, k)
    /\ \A p \in Handlers :
         hs[p].pc = "minting" =>
           /\ mu = "locked"
           /\ ~ (hs[p].host \in DOMAIN certCache)
           /\ \A q \in Handlers \ {p} : hs[q].pc # "minting"

\* C1 witness: two handlers hold the leaf of one host key after one invocation.
C1_Witness ==
    \E p, q \in Handlers :
      /\ p # q /\ hs[p].host = hs[q].host
      /\ InSeq("leaf", hs[p].events) /\ InSeq("leaf", hs[q].events)
      /\ mintCalls[hs[p].host].calls = 1

\* C2 as stated: record ids strictly increase along the capture log.
C2_IdsIncreaseAlongLog ==
    \A i, j \in 1..Len(requests) : i < j => requests[i].ID < requests[j].ID

\* C2 amended: the ids of the records of the capture log are pairwise
\* distinct and each is an id the counter has assigned (1..reqID); the records
\* stand in the order the handlers finished, not the order of their ids.
C2_IdsDistinctAndAssigned ==
    /\ \A i \in 1..Len(requests) : requests[i].ID \in 1..reqID
    /\ \A i, j \in 1..Len(requests) : i # j => requests[i].ID # requests[j].ID

\* C2 witness: a record with a later id stands before one with an earlier id.
C2_Witness ==
    /\ Len(requests) = 2
    /\ requests[1].ID > requests[2].ID

\* C3: the capture log never holds more than the retention limit of records
\* (an append to a full log drops the oldest record).
C3_LogBounded ==
    Len(requests) <= LogCap

\* C4: the slice GetRequests returns is the capture log as it stood at one
\* instant (the log cannot change between the copy and the return), appends
\* made after the return leave it as it was, so it stays the first records of
\* the log; the entries ExportHAR writes are those of the log at one instant.
C4_SnapshotConsistent ==
    /\ rd.pc = "copied" => rd.snap = requests
    /\ rd.pc = "returned" /\ rd.op = "GetRequests" => IsPrefix(rd.snap, requests)
    /\ rd.pc = "returned" /\ rd.op = "ExportHAR" =>
         \E n \in 0..Len(requests) : rd.har \in HAREntries(SubSeq(requests, 1, n))

\* C4 witness: a returned snapshot with a record in it, and the log appended to since.
C4_Witness ==
    /\ rd.pc = "returned" /\ rd.op = "GetRequests"
    /\ Len(rd.snap) >= 1
    /\ Len(requests) > Len(rd.snap)

\* C5: a leaf stored for a host key is never replaced or removed, and every
\* handler that holds a leaf holds the one the cache has for its host key.
C5_LeafNeverReplaced ==
    [][ /\ \A k \in DOMAIN certCache :
             k \in DOMAIN certCache' /\ certCache'[k] = certCache[k]
        /\ \A p \in Handlers :
             hs'[p].cert # NoCert =>
               /\ hs'[p].host \in DOMAIN certCache'
               /\ hs'[p].cert = certCache'[hs'[p].host] ]_vars

\* C5 witness: two CONNECTs to one host key have both presented the same leaf.
C5_Witness ==
    \E p, q \in Handlers :
      /\ p # q /\ hs[p].host = hs[q].host
      /\ InSeq("handshake", hs[p].events) /\ InSeq("handshake", hs[q].events)
      /\ hs[p].cert = hs[q].cert /\ hs[p].cert # NoCert

\* C6: the cache key is the CONNECT authority with its port; the leaf of a
\* completed handshake has CN = DNS SAN = the authority without the port and
\* the chain presented is [leaf, root]; h:443 and h:8443 have entries of their own.
C6_KeyWithPortNameWithout ==
    /\ \A p \in Handlers :
         InSeq("handshake", hs[p].events) =>
           /\ hs[p].host \in DOMAIN certCache
           /\ certCache[hs[p].host] = hs[p].cert
           /\ hs[p].cert.Leaf.CommonName = HostWithoutPort(hs[p].host)
           /\ hs[p].cert.Leaf.DNSNames = <<HostWithoutPort(hs[p].host)>>
           /\ hs[p].raw[2] = <<"ServerHello", <<hs[p].cert.Leaf, RootCert>> >>
    /\ \A k \in DOMAIN certCache :
         /\ k \in HostKeys
         /\ certCache[k].Leaf.CommonName = HostWithoutPort(k)
    /\ \A k, l \in DOMAIN certCache :
         k # l => certCache[k].Leaf.Serial # certCache[l].Leaf.Serial

\* C6 witness: handshakes done for a:443 and a:8443, each with its own entry.
C6_Witness ==
    \E p, q \in Handlers :
      /\ hs[p].host = Host443 /\ hs[q].host = Host8443
      /\ InSeq("handshake", hs[p].events) /\ InSeq("handshake", hs[q].events)
      /\ {Host443, Host8443} \subseteq DOMAIN certCache

\* C7: the steps of a CONNECT happen in the order leaf, hijack, 200 line,
\* handshake, inner request, dispatch, response, none without the ones before
\* it; the 200 line is the first thing written on the raw socket, and the
\* handshake follows it.
C7_ConnectStepsInOrder ==
    \A p \in Handlers :
      IsConnect(p) =>
        /\ IsPrefix(hs[p].events, ConnectOrder)
        /\ hs[p].raw # <<>> => hs[p].raw[1] = Established
        /\ InSeq("handshake", hs[p].events) => Len(hs[p].raw) = 2
        /\ hs[p].tls # <<>> => InSeq("handshake", hs[p].events)
        /\ hs[p].sent <= 1

\* C7 witness: a CONNECT that went through every step.
C7_Witness ==
    \E p \in Handlers : IsConnect(p) /\ hs[p].events = ConnectOrder

\* C8: the step that handles a CONNECT with no authority answers 400 and
\* returns; it mints nothing, leaves the cache alone, does not hijack and
\* sends nothing upstream.
C8_MissingHostTouchesNothing ==
    [][ \A p \in Handlers :
          (/\ hs[p].pc = "recv" /\ IsConnect(p) /\ hs[p].host = NoHost
           /\ hs'[p] # hs[p])
          => /\ hs'[p].pc = "done"
             /\ hs'[p].status = StatusBadRequest
             /\ ~ hs'[p].hijacked
             /\ hs'[p].sent = 0
             /\ hs'[p].cert = NoCert
             /\ certCache' = certCache
             /\ mintCalls' = mintCalls
             /\ serials' = serials ]_vars

\* C8 witness: a CONNECT with no authority has been answered.
C8_Witness ==
    \E p \in Handlers :
      IsConnect(p) /\ hs[p].host = NoHost /\ hs[p].pc = "done" /\ hs[p].status = StatusBadRequest

\* C9: a CONNECT answered 400 or 500 before the tunnel stands has appended an
\* error entry to the capture log.
C9_EarlyConnectFailureLogged ==
    \A p \in Handlers :
      (/\ IsConnect(p) /\ hs[p].pc = "done"
       /\ hs[p].status \in {StatusBadRequest, StatusInternalServerError})
      => hs[p].appended >= 1

\* C10: a handler that returned after an upstream transport failure has
\* appended exactly one record, with status 0 and an error text; the plain-HTTP
\* client got 502, the tunnel was closed with nothing written on its TLS stream.
C10_TransportFailureRecorded ==
    \A p \in Handlers :
      hs[p].pc = "done" /\ hs[p].fail \in TransportErrors =>
        /\ hs[p].appended = 1
        /\ Cardinality({i \in 1..Len(requests) : requests[i].ID = hs[p].id}) = 1
        /\ \A i \in 1..Len(requests) :
             requests[i].ID = hs[p].id =>
               requests[i].StatusCode = 0 /\ requests[i].Error # ""
        /\ IF IsConnect(p)
           THEN hs[p].closed /\ hs[p].tls = <<>> /\ hs[p].status = 0 /\ hs[p].body = 0
           ELSE hs[p].status = StatusBadGateway /\ hs[p].body = 0

\* C10 witness: a plain request and a tunnel have both ended in a transport failure.
C10_Witness ==
    \E p, q \in Handlers :
      /\ IsConnect(p) /\ ~ IsConnect(q)
      /\ hs[p].pc = "done" /\ hs[p].fail = ErrTransport
      /\ hs[q].pc = "done" /\ hs[q].fail = ErrTransport

\* C11: a tunnel relays a response on the client's TLS stream only when the
\* origin's chain verified; an origin whose chain was refused is dispatched
\* to once, never again with verification off, nothing of it reaches the
\* client, and the failure is logged as a transport error.
C11_RelayOnlyVerifiedOrigin ==
    \A p \in Handlers :
      IsConnect(p) =>
        /\ hs[p].tls # <<>> \/ hs[p].pc \in {"respond", "log"} => hs[p].origin = "valid"
        /\ hs[p].origin = "invalid" =>
              /\ hs[p].tls = <<>> /\ hs[p].resp = 0 /\ hs[p].body = 0
              /\ hs[p].sent = 1
              /\ hs[p].fail = ErrCertificate
              /\ hs[p].pc \in {"logerr", "done"}
        /\ hs[p].sent <= 1

\* C11 witness: one tunnel has relayed the response of a verified origin, and
\* another has ended on an origin whose chain was refused.
C11_Witness ==
    \E p, q \in Handlers :
      /\ IsConnect(p) /\ hs[p].tls # <<>> /\ hs[p].origin = "valid"
      /\ IsConnect(q) /\ hs[q].origin = "invalid" /\ hs[q].pc = "done"
      /\ hs[q].appended = 1

\* A header name that is a hop-by-hop name in some spelling.
FoldCase(s) == [i \in 1..Len(s) |-> ToLower(s[i])]

IsHopName(name) == \E i \in 1..Len(hopHeaders) : FoldCase(name) = FoldCase(hopHeaders[i])

InjectedNames == {CanonicalMIMEHeaderKey(k) : k \in DOMAIN hdr.inject}

\* C12: on both paths, whatever the client sent and however it spelt it, the
\* upstream request has none of Connection, Proxy-Connection, Keep-Alive,
\* Proxy-Authenticate, Proxy-Authorization, Te, Trailer, Transfer-Encoding and
\* Upgrade after the stripping, and at dispatch carries such a header only if
\* it is a configured one with the configured value; the other headers of the
\* client are on it.
C12_HopHeadersStripped ==
    hdr.stage \in {"stripped", "dispatched"} =>
      /\ \A k \in DOMAIN hdr.stripped : ~ IsHopName(k)
      /\ \A k \in DOMAIN hdr.out :
           IsHopName(k) => hdr.stage = "dispatched" /\ k \in InjectedNames
      /\ \A i \in 1..Len(hdr.wire) :
           ~ IsHopName(hdr.wire[i].name) =>
             CanonicalMIMEHeaderKey(hdr.wire[i].name) \in DOMAIN hdr.stripped

\* C12 witness: the client sent a hop-by-hop header in a spelling of its own
\* and another header; the request is dispatched on the tunnel path.
C12_Witness ==
    /\ hdr.stage = "dispatched" /\ hdr.path = "tunnel"
    /\ \E i, j \in 1..Len(hdr.wire) :
         /\ IsHopName(hdr.wire[i].name)
         /\ hdr.wire[i].name # CanonicalMIMEHeaderKey(hdr.wire[i].name)
         /\ ~ IsHopName(hdr.wire[j].name)
    /\ hdr.out # NoHeaders

\* C13: every configured header (k, v) is on the dispatched request with the
\* single value v, whatever the client sent under that name.
C13_InjectedHeadersWin ==
    hdr.stage = "dispatched" =>
      \A k \in DOMAIN hdr.inject :
        /\ CanonicalMIMEHeaderKey(k) \in DOMAIN hdr.out
        /\ hdr.out[CanonicalMIMEHeaderKey(k)] = <<hdr.inject[k]>>

\* C13 witness: the client sent another value under a configured name.
C13_Witness ==
    /\ hdr.stage = "dispatched"
    /\ \E k \in DOMAIN hdr.inject :
         /\ CanonicalMIMEHeaderKey(k) \in DOMAIN hdr.in
         /\ hdr.in[CanonicalMIMEHeaderKey(k)] # <<hdr.inject[k]>>
         /\ CanonicalMIMEHeaderKey(k) \in DOMAIN hdr.stripped

\* C14: shouldFilter suppresses exactly when a non-empty domain filter is not
\* a substring of the host, or a non-empty method set lacks the method, or
\* errors-only is set and the status is below 400; with no filter configured
\* nothing is suppressed, and an empty method set lets every method through.
C14_ShouldFilterExactly ==
    flt.stage = "done" =>
      LET c == flt.cfg
          domainMiss ==
            /\ Len(c.domain) > 0
            /\ \A i \in 1..Len(flt.host) :
                 \E j \in 1..Len(c.domain) :
                   i + j - 1 > Len(flt.host) \/ flt.host[i + j - 1] # c.domain[j]
          methodMiss ==
            /\ c.methods # <<>>
            /\ \A i \in 1..Len(c.methods) : c.methods[i] # flt.method
          notError == c.errorsOnly /\ flt.resp \in 0..399
      IN  /\ flt.suppressed <=> (domainMiss \/ methodMiss \/ notError)
          /\ (c.domain = <<>> /\ c.methods = <<>> /\ ~ c.errorsOnly) => ~ flt.suppressed
          /\ (c.methods = <<>> /\ c.domain = <<>> /\ ~ c.errorsOnly) =>
               flt.log # <<>>

\* C14 witness: a request suppressed by the domain filter alone, its method
\* allowed and its status an error.
C14_Witness ==
    /\ flt.stage = "done" /\ flt.suppressed
    /\ flt.cfg.domain = <<"b", ".", "a">> /\ flt.host = <<"a">>
    /\ flt.cfg.methods = <<"GET", "PUT">> /\ flt.method = "GET"
    /\ flt.cfg.errorsOnly /\ flt.resp = 400

\* C15: whatever the filters, a request is dispatched once and its response
\* is delivered to the client; the log holds its record exactly when the
\* filter did not suppress it (under errors-only a 200 is delivered and not
\* logged, a 500 is delivered and logged).
C15_FilterOnlyAffectsLog ==
    /\ flt.stage \in {"respond", "log", "done"} => flt.sent = 1 /\ flt.resp \in FilterStatuses
    /\ flt.stage \in {"log", "done"} => flt.status = flt.resp
    /\ flt.stage = "done" =>
         /\ Len(flt.log) = (IF flt.suppressed THEN 0 ELSE 1)
         /\ ~ flt.suppressed =>
              /\ flt.log[1].StatusCode = flt.resp
              /\ flt.log[1].Method = flt.method /\ flt.log[1].Host = flt.host
         /\ (flt.cfg.errorsOnly /\ flt.cfg.domain = <<>> /\ flt.cfg.methods = <<>>) =>
              (flt.log # <<>> <=> flt.resp >= 400)

\* C15 witness: under errors-only alone a 200 was delivered and not logged.
C15_Witness ==
    /\ flt.stage = "done"
    /\ flt.cfg.errorsOnly /\ flt.cfg.domain = <<>> /\ flt.cfg.methods = <<>>
    /\ flt.sent = 1 /\ flt.status = 200 /\ flt.log = <<>>

\* The places of the error-free records of the exported log, and the place
\* in the file of the entry of the record at place i.
HarOk == {i \in 1..Len(har.log) : har.log[i].Error = ""}

HarPlace(i) == Cardinality({j \in HarOk : j <= i})

\* C16: the file ExportHAR writes has exactly one entry for each error-free
\* record, in the order of the log, and none for a record with an error: as
\* many entries as error-free records, the k-th entry that of the k-th
\* error-free record.
C16_OneEntryPerErrorFreeRecord ==
    har.stage = "written" =>
      /\ Len(har.file) = Cardinality(HarOk)
      /\ \A i \in HarOk :
           LET e == har.file[HarPlace(i)]
               t == har.log[i]
           IN  /\ e.method = t.Method /\ e.url = t.URL /\ e.status = t.StatusCode
               /\ e.requestBodySize = t.ReqSize /\ e.contentSize = t.RespSize

\* C16 witness: a log with a failed record between two error-free ones,
\* different from each other, has been written as two entries.
C16_Witness ==
    /\ har.stage = "written"
    /\ Len(har.log) = 3 /\ HarOk = {1, 3}
    /\ har.log[1].Method # har.log[3].Method
    /\ Len(har.file) = 2

\* C17: in the file every entry's time is the record's duration in
\* milliseconds, its bodySize the record's RespSize, and its method, url and
\* status those of the record.
C17_EntryMirrorsRecord ==
    har.stage = "written" =>
      \A i \in HarOk :
        LET e == har.file[HarPlace(i)]
            t == har.log[i]
        IN  /\ e.time * Millisecond = t.Duration
            /\ e.bodySize = t.RespSize
            /\ e.method = t.Method /\ e.url = t.URL /\ e.status = t.StatusCode

C19_DamagedFilesAreFatal ==
    \A i \in 1..Len(disk.calls) :
      LET c == disk.calls[i]
      IN  (/\ c.certBefore # Absent /\ c.keyBefore # Absent
           /\ (c.certBefore.kind # "pem" \/ c.keyBefore.kind # "pem"))
          => /\ c.err # <<>> /\ c.ca = NoCA
             /\ c.kind = "load" /\ ~ c.generated
             /\ c.wrote = {}
             /\ c.certAfter = c.certBefore /\ c.keyAfter = c.keyBefore
             /\ i = Len(disk.calls) => disk.cert = c.certBefore /\ disk.key = c.keyBefore

\* C19 witness: three calls in a row failed on a good certificate and a key
\* that is not PEM, and the files are still those.
C19_Witness ==
    /\ Len(disk.calls) = 3
    /\ \A i \in 1..3 : disk.calls[i].err = <<"failed to decode CA ", "key", " PEM">>
    /\ disk.cert = Pem(0) /\ disk.key = NotPem
    /\ disk.roots = 0

\* C20: with HTTPS set the listener accepts only after GetCA has returned
\* the CA and Start has stored it: whenever the server listens or is about
\* to, and whenever a handler has been started, s.CA is set, so no CONNECT
\* handler meets a nil CA; when GetCA fails Start ends without listening and
\* no request is ever accepted.
C20_CALoadedBeforeListening ==
    https =>
      /\ srv \in {"starting", "listening"} => ca = "root"
      /\ \A p \in Handlers :
           /\ hs[p].pc # "idle" => ca = "root"
           /\ hs[p].pc # "panicked"
      /\ started > 0 => ca = "root"
      /\ ca = "nil" => srv \in {"new", "failed"} /\ started = 0

\* C20 witness: with HTTPS set a CONNECT handler is minting a leaf, the CA
\* being there.
C20_Witness ==
    /\ https /\ srv = "listening" /\ ca = "root"
    /\ \E p \in Handlers : IsConnect(p) /\ hs[p].pc = "minting"

\* C22: while a CONNECT handler is minting a leaf, the handlers of other
\* requests go on: a plain request that has arrived can take its id, one
\* that has its response can append its record, and a CONNECT can look its
\* host key up, none of them waiting for the mint to end.
C22_OthersNotBlockedByMint ==
    \A p, q \in Handlers :
      (p # q /\ hs[p].pc = "minting") =>
        /\ (hs[q].pc = "recv" /\ ~ IsConnect(q)) => ENABLED ForwardAssignID(q)
        /\ (hs[q].pc = "log" /\ ~ IsConnect(q)) => ENABLED ForwardLog(q)
        /\ (hs[q].pc = "recv" /\ IsConnect(q) /\ hs[q].host # NoHost) =>
             ENABLED ConnectLookup(q)

\* C23: a CONNECT whose mint returned an error is answered 500 and ends
\* there, with no leaf, not hijacked; the failed call stores nothing, so the
\* cache holds a leaf for a host key only after a call that succeeded, every
\* leaf a handler presents is that one, and a later CONNECT for the host key
\* misses and mints afresh.
C23_FailedMintStoresNothing ==
    /\ \A p \in Handlers :
         /\ hs[p].fail = "mint" =>
              /\ hs[p].pc = "done" /\ hs[p].status = StatusInternalServerError
              /\ hs[p].cert = NoCert /\ ~ hs[p].hijacked /\ hs[p].raw = <<>>
         /\ hs[p].cert # NoCert =>
              /\ mintCalls[hs[p].host].ok = 1
              /\ hs[p].cert = certCache[hs[p].host]
              /\ hs[p].cert.Leaf.Serial \in 1..serials
    /\ \A k \in HostKeys :
         /\ k \in DOMAIN certCache <=> mintCalls[k].ok = 1
         /\ (mintCalls[k].ok = 0 /\ mintCalls[k].calls > 0) =>
              \A p \in Handlers :
                (hs[p].pc = "recv" /\ hs[p].host = k) => ~ CacheHas(certCache, hs[p].host)
    /\ Cardinality(DOMAIN certCache) = serials

\* C23 witness: the first mint for a host key failed with 500, the second
\* succeeded, and its leaf has been presented.
C23_Witness ==
    \E p, q \in Handlers :
      /\ hs[p].fail = "mint" /\ hs[p].status = StatusInternalServerError
      /\ hs[q].host = hs[p].host /\ InSeq("handshake", hs[q].events)
      /\ mintCalls[hs[p].host] = [calls |-> 2, ok |-> 1]

\* The failures of the client's side of a tunnel.
ClientSideFailures == {"handshake", "read", "write response"}

\* C24: a CONNECT that ended on a failed TLS handshake, an inner request
\* that could not be read, or a response that could not be written on the
\* TLS stream has closed the tunnel and appended nothing: no record of the
\* log carries its id.
C24_ClientFailureAppendsNothing ==
    \A p \in Handlers :
      (IsConnect(p) /\ hs[p].fail \in ClientSideFailures) =>
        /\ hs[p].pc = "done" /\ hs[p].hijacked /\ hs[p].closed
        /\ hs[p].appended = 0
        /\ \A i \in 1..Len(requests) : requests[i].ID # hs[p].id
        /\ hs[p].tls = <<>>

\* C24 witness: a tunnel ended on the response write, after its request had
\* been given an id and dispatched, and another on the handshake.
C24_Witness ==
    \E p, q \in Handlers :
      /\ IsConnect(p) /\ hs[p].fail = "write response" /\ hs[p].id > 0 /\ hs[p].sent = 1
      /\ IsConnect(q) /\ hs[q].fail = "handshake"
      /\ requests = <<>>

\* C26: the record of every request that was answered, plain or in a
\* tunnel, has RespSize equal to the body bytes delivered to the client.
C26_RespSizeIsDelivered ==
    \A p \in Handlers :
      (hs[p].pc = "done" /\ hs[p].appended = 1 /\ hs[p].fail = "") =>
        \A i \in 1..Len(requests) :
          requests[i].ID = hs[p].id => requests[i].RespSize = hs[p].body

\* C27: a CONNECT handler that has returned after the hijack has closed the
\* client's socket, whichever way it ended; the socket is closed by the
\* return and not before; a handler is hijacked only with a CA loaded, so none
\* waits behind a mutex that a panic left locked; a CONNECT dispatches at most
\* one inner request.
C27_HijackedSocketClosed ==
    \A p \in Handlers :
      IsConnect(p) =>
        /\ (hs[p].pc = "done" /\ hs[p].hijacked) => hs[p].closed
        /\ (hs[p].closed /\ hs[p].pc # "panicked") => hs[p].pc = "done" /\ hs[p].hijacked
        /\ hs[p].hijacked => ca = "root" /\ hs[p].pc # "panicked"
        /\ hs[p].sent <= 1

\* C27 witness: two tunnels have returned with their sockets closed, one
\* after relaying the response, one after the 200 line could not be written.
C27_Witness ==
    \E p, q \in Handlers :
      /\ IsConnect(p) /\ hs[p].pc = "done" /\ hs[p].tls # <<>> /\ hs[p].closed
      /\ IsConnect(q) /\ hs[q].pc = "done" /\ hs[q].fail = "write 200" /\ hs[q].closed

\* C28: the mutex is never left held: whenever it is locked, the handler
\* that locked it is still at work between its Lock and its Unlock.
C28_MutexAlwaysReleased ==
    mu = "locked" => \E p \in Handlers : hs[p].pc = "minting"

\* C29: a plain request that has been handled to its end has appended
\* exactly one record, with its id, whether it was answered or failed; a
\* CONNECT has appended at most one; every id is assigned once, so no two
\* requests under way and no two records share an id.
C29_OneRecordPerRequest ==
    /\ \A p \in Handlers :
         LET mine == {i \in 1..Len(requests) : requests[i].ID = hs[p].id}
         IN  /\ Cardinality(mine) = hs[p].appended
             /\ (~ IsConnect(p) /\ hs[p].pc = "done") => hs[p].appended = 1 /\ hs[p].id > 0
             /\ hs[p].appended <= 1
             /\ hs[p].id \in 0..reqID
    /\ \A p, q \in Handlers : (p # q /\ hs[p].id # 0) => hs[p].id # hs[q].id
    /\ \A i, j \in 1..Len(requests) : i # j => requests[i].ID # requests[j].ID
    /\ Len(requests) <= reqID

\* C29 witness: a plain request answered and a plain request failed, one
\* record each.
C29_Witness ==
    \E p, q \in Handlers :
      /\ ~ IsConnect(p) /\ hs[p].pc = "done" /\ hs[p].fail = ""
      /\ ~ IsConnect(q) /\ hs[q].pc = "done" /\ hs[q].fail = ErrNewRequest
      /\ Len(requests) = 2 /\ requests[1].ID # requests[2].ID

C25_RecordHoldsCopyOfHeaders ==
    /\ hdr.stage \in {"copied", "stripped", "dispatched", "logged"} =>
          hdr.in = ReadHeaders(hdr.wire)
    /\ hdr.stage \in {"logged", "changed"} =>
          Deref(hdr.rec.Headers) = ReadHeaders(hdr.wire)

\* C30: two exports of the same unchanged log write the same document: the
\* same entries in the same order, and in each entry the same request
\* headers in the same order.
C30_ExportDeterministic ==
    har.stage = "written" /\ har.run = "second" => har.file = har.before

====
